---- MODULE Spec2Model ----
(***************************************************************************)
(* Model of src/src/main.rs: the Optional trait (one primitive, fold), its *)
(* implementation for Option<T>, and the eight combinators derived from    *)
(* fold.                                                                   *)
(*                                                                         *)
(* Every operation is a pure function.  To be able to state how often a    *)
(* caller-supplied function is invoked, each operator returns a record     *)
(*    [res |-> the value the Rust function returns,                        *)
(*     ev  |-> the sequence of calls made while computing it]              *)
(* in Rust's evaluation order (arguments before the call).                 *)
(***************************************************************************)
EXTENDS Integers, Sequences, FiniteSets

\* Largest contained value; the type parameter T/U is modelled as 0..MaxVal.
MaxVal == 2

Values == 0 .. MaxVal

\* Option<T>: the two variants.
None == [tag |-> "None"]
Some(v) == [tag |-> "Some", val |-> v]
Opt == {None} \cup {Some(v) : v \in Values}

\* The caller-supplied functions the operations are applied to.
Fns == [Values -> Values]
OptFns == [Values -> Opt]
Preds == [Values -> BOOLEAN]
Unit == <<>>
Thunks == [{Unit} -> Opt]

\* ---------------------------------------------------------------------
\* Call events
\* ---------------------------------------------------------------------
Ev(kind, a) == [e |-> kind, arg |-> a]

\* A value computed without any call.
Pure(x) == [res |-> x, ev |-> <<>>]

\* One invocation of a caller-supplied function of one argument.
Call(f, v) == [res |-> f[v], ev |-> <<Ev("call", v)>>]

\* One invocation of a caller-supplied function of no argument.
Call0(f) == [res |-> f[Unit], ev |-> <<Ev("call0", Unit)>>]

\* Option::is_some of the standard library: takes &self, consumes nothing.
std_is_some(o) == [res |-> o.tag = "Some", ev |-> <<Ev("is_some_ref", o)>>]

Count(ev, kind) == Cardinality({i \in 1 .. Len(ev) : ev[i].e = kind})

\* ---------------------------------------------------------------------
\* The primitive
\* ---------------------------------------------------------------------
\* Mutant: the closure is applied twice on the Some path.
fold_twice(self, default, f) ==
    IF self.tag = "Some"
    THEN LET r == f[self.val]
         IN  [res |-> r.res, ev |-> <<Ev("fold", self)>> \o r.ev \o r.ev]
    ELSE [res |-> default, ev |-> <<Ev("fold", self)>>]

\* impl Optional<T> for Option<T>: match self { Some(v) => f(v), None => default }
\* f is a closure: a function from Values to [res, ev].
fold(self, default, f) ==
    IF self.tag = "Some"
    THEN LET r == f[self.val]
         IN  [res |-> r.res, ev |-> <<Ev("fold", self)>> \o r.ev]
    ELSE [res |-> default, ev |-> <<Ev("fold", self)>>]

\* ---------------------------------------------------------------------
\* The derived operations
\* ---------------------------------------------------------------------
\* Mutant: the arguments of the fold are swapped in meaning, the default wins.
get_or_else_default(item, default) ==
    fold(item, default, [val \in Values |-> Pure(default)])

\* item.fold(_default, |val| val)
get_or_else(item, default) ==
    fold(item, default, [val \in Values |-> Pure(val)])

\* item.fold(false, |_| true)
is_some(item) ==
    fold(item, FALSE, [v \in Values |-> Pure(TRUE)])

\* Mutant: the closure answers true, as in is_some.
is_none_true(item) ==
    fold(item, TRUE, [v \in Values |-> Pure(TRUE)])

\* item.fold(true, |_| false)
is_none(item) ==
    fold(item, TRUE, [v \in Values |-> Pure(FALSE)])

\* Mutant: the value is wrapped without applying f.
map_id(item, f) ==
    fold(item, None, [v \in Values |-> Pure(Some(v))])

\* item.fold(None, |v| Some(f(v)))
map(item, f) ==
    fold(item, None,
         [v \in Values |-> LET r == Call(f, v) IN [res |-> Some(r.res), ev |-> r.ev]])

\* Mutant: an Absent result of f is replaced by the input value.
and_then_keep(item, f) ==
    fold(item, None,
         [v \in Values |-> LET r == Call(f, v)
                           IN  [res |-> IF r.res.tag = "Some" THEN r.res ELSE Some(v),
                                ev |-> r.ev]])

\* item.fold(None, |v| f(v))
and_then(item, f) ==
    fold(item, None, [v \in Values |-> Call(f, v)])

\* Mutant: the test of the predicate is inverted.
filter_not(item, predicate) ==
    fold(item, None,
         [v \in Values |-> LET p == Call(predicate, v)
                           IN  [res |-> IF p.res THEN None ELSE Some(v), ev |-> p.ev]])

\* item.fold(None, |v| if predicate(&v) { Some(v) } else { None })
filter(item, predicate) ==
    fold(item, None,
         [v \in Values |-> LET p == Call(predicate, v)
                           IN  [res |-> IF p.res THEN Some(v) ELSE None, ev |-> p.ev]])

\* Mutant: the fallback's result wins whenever it is Some.
or_else_prefer_default(item, default) ==
    LET d == Call0(default)
        r == fold(item, d.res,
                  [v \in Values |-> Pure(IF d.res.tag = "Some" THEN d.res ELSE Some(v))])
    IN  [res |-> r.res, ev |-> d.ev \o r.ev]

\* item.fold(default(), |v| Some(v)): the argument default() is evaluated
\* before fold is entered, whatever item is.
or_else(item, default) ==
    LET d == Call0(default)
        r == fold(item, d.res, [v \in Values |-> Pure(Some(v))])
    IN  [res |-> r.res, ev |-> d.ev \o r.ev]

\* Mutant: other_has_value is not consulted.
xor_ignore_other(item, other) ==
    LET h == std_is_some(other)
        r == fold(item, other, [v \in Values |-> Pure(Some(v))])
    IN  [res |-> r.res, ev |-> h.ev \o r.ev]

\* Mutant: the presence of other is found by the consuming is_some above.
xor_consuming(item, other) ==
    LET h == is_some(other)
        other_has_value == h.res
        r == fold(item, other,
                  [v \in Values |-> Pure(IF other_has_value THEN None ELSE Some(v))])
    IN  [res |-> r.res, ev |-> h.ev \o r.ev]

\* let other_has_value = other.is_some();
\* item.fold(other, move |v| if other_has_value { None } else { Some(v) })
xor(item, other) ==
    LET h == std_is_some(other)
        other_has_value == h.res
        r == fold(item, other,
                  [v \in Values |-> Pure(IF other_has_value THEN None ELSE Some(v))])
    IN  [res |-> r.res, ev |-> h.ev \o r.ev]

\* ---------------------------------------------------------------------
\* State: the last call made, its arguments, its result and its calls
\* ---------------------------------------------------------------------
VARIABLES op, item, other, dflt, fn, result, events

vars == <<op, item, other, dflt, fn, result, events>>

NoFn == "nofn"

Init ==
    /\ op = "init"
    /\ item = None
    /\ other = None
    /\ dflt = 0
    /\ fn = NoFn
    /\ result = 0
    /\ events = <<>>

Done(name, i, o, d, f, r) ==
    /\ op' = name
    /\ item' = i
    /\ other' = o
    /\ dflt' = d
    /\ fn' = f
    /\ result' = r.res
    /\ events' = r.ev

\* opt.fold(d, f) with a caller-supplied f
DoFold ==
    \E i \in Opt, d \in Values, f \in Fns :
        Done("fold", i, None, d, f, fold(i, d, [v \in Values |-> Call(f, v)]))

DoGetOrElse ==
    \E i \in Opt, d \in Values :
        Done("get_or_else", i, None, d, NoFn, get_or_else(i, d))

DoIsSome ==
    \E i \in Opt : Done("is_some", i, None, 0, NoFn, is_some(i))

DoIsNone ==
    \E i \in Opt : Done("is_none", i, None, 0, NoFn, is_none(i))

DoMap ==
    \E i \in Opt, f \in Fns : Done("map", i, None, 0, f, map(i, f))

DoAndThen ==
    \E i \in Opt, f \in OptFns : Done("and_then", i, None, 0, f, and_then(i, f))

DoFilter ==
    \E i \in Opt, p \in Preds : Done("filter", i, None, 0, p, filter(i, p))

DoOrElse ==
    \E i \in Opt, f \in Thunks : Done("or_else", i, None, 0, f, or_else(i, f))

DoXor ==
    \E i \in Opt, o \in Opt : Done("xor", i, o, 0, NoFn, xor(i, o))

Next ==
    \/ DoFold
    \/ DoGetOrElse
    \/ DoIsSome
    \/ DoIsNone
    \/ DoMap
    \/ DoAndThen
    \/ DoFilter
    \/ DoOrElse
    \/ DoXor

Spec == Init /\ [][Next]_vars

Present(x) == x.tag = "Some"
Absent(x) == x.tag = "None"
Derived == {"get_or_else", "is_some", "is_none", "map", "and_then", "filter", "or_else", "xor"}

\* ---------------------------------------------------------------------
\* Properties
\* ---------------------------------------------------------------------
\* Every call of the given kind in ev has argument a.
AllArgs(ev, kind, a) == \A i \in 1 .. Len(ev) : ev[i].e = kind => ev[i].arg = a

\* C1: fold(opt, d, f) returns f(v) and invokes f exactly once (on v) when
\* opt is Present(v); it returns d and does not invoke f when opt is Absent.
C1_FoldContract ==
    op = "fold" =>
        /\ Present(item) =>
              /\ result = fn[item.val]
              /\ Count(events, "call") = 1
              /\ AllArgs(events, "call", item.val)
        /\ Absent(item) =>
              /\ result = dflt
              /\ Count(events, "call") = 0

C1_Witness ==
    /\ op = "fold"
    /\ Present(item)
    /\ fn[item.val] # dflt
    /\ fn[item.val] # item.val
    /\ result = fn[item.val]
    /\ Count(events, "call") = 1

\* C2: or_else invokes its fallback function only on the absent path: zero
\* times when opt is Present, once when opt is Absent.
C2_LazyFallback ==
    op = "or_else" =>
        Count(events, "call0") = (IF Absent(item) THEN 1 ELSE 0)

\* C3: xor follows the four-case table: Present(a), Absent -> Present(a);
\* Absent, Present(b) -> Present(b); both Present -> Absent (also when
\* a = b); both Absent -> Absent.
C3_XorTable ==
    op = "xor" =>
        /\ (Present(item) /\ Absent(other)) => result = item
        /\ (Absent(item) /\ Present(other)) => result = other
        /\ (Present(item) /\ Present(other)) => result = None
        /\ (Absent(item) /\ Absent(other)) => result = None
        /\ Present(result) <=> (Present(item) # Present(other))

C3_Witness ==
    /\ op = "xor"
    /\ Present(item)
    /\ Present(other)
    /\ item = other
    /\ result = None

\* C4: or_else(Present(v), f) = Present(v) and or_else(Absent, f) = f(),
\* whatever f returns.
C4_OrElseResult ==
    op = "or_else" =>
        /\ Present(item) => result = item
        /\ Absent(item) => result = fn[Unit]

C4_Witness ==
    /\ op = "or_else"
    /\ Present(item)
    /\ Present(fn[Unit])
    /\ fn[Unit] # item
    /\ result = item

\* C5: filter(Present(v), p) is Present(v) when p(v) holds and Absent when
\* it does not; filter(Absent, p) is Absent and p is not invoked.  p is
\* invoked at most once, and only on v.
C5_FilterContract ==
    op = "filter" =>
        /\ Present(item) => result = (IF fn[item.val] THEN item ELSE None)
        /\ Present(item) => AllArgs(events, "call", item.val)
        /\ Absent(item) => (result = None /\ Count(events, "call") = 0)
        /\ Count(events, "call") <= 1

C5_Witness ==
    /\ op = "filter"
    /\ Present(item)
    /\ fn[item.val]
    /\ \E w \in Values : ~fn[w]
    /\ result = item
    /\ Count(events, "call") = 1

\* C6: map(Present(v), f) = Present(f(v)) and map(Absent, f) = Absent; map
\* keeps presence (is_some of the result equals is_some of the input) and
\* does not invoke f on Absent.
C6_MapContract ==
    op = "map" =>
        /\ Present(item) => result = Some(fn[item.val])
        /\ Absent(item) => (result = None /\ Count(events, "call") = 0)
        /\ is_some(result).res = is_some(item).res

C6_Witness ==
    /\ op = "map"
    /\ Present(item)
    /\ fn[item.val] # item.val
    /\ result = Some(fn[item.val])

\* C7: and_then(Present(v), f) = f(v) with no extra wrapping (Absent when
\* f(v) is Absent); and_then(Absent, f) = Absent without invoking f.
C7_AndThenContract ==
    op = "and_then" =>
        /\ Present(item) => result = fn[item.val]
        /\ Absent(item) => (result = None /\ Count(events, "call") = 0)

C7_Witness ==
    /\ op = "and_then"
    /\ Present(item)
    /\ fn[item.val] = None
    /\ \E w \in Values : Present(fn[w])
    /\ result = None

\* C8: get_or_else(Present(v), d) = v, also when d differs from v, and
\* get_or_else(Absent, d) = d.
C8_GetOrElse ==
    op = "get_or_else" =>
        /\ Present(item) => result = item.val
        /\ Absent(item) => result = dflt

C8_Witness ==
    /\ op = "get_or_else"
    /\ Present(item)
    /\ dflt # item.val
    /\ result = item.val

\* C9: is_some(x) is true iff x is Present, is_none(x) is true iff x is
\* Absent; the two are exact complements on every x.
C9_Complement ==
    /\ op = "is_some" => (result <=> Present(item))
    /\ op = "is_none" => (result <=> Absent(item))
    /\ op \in {"is_some", "is_none"} => (is_some(item).res <=> ~is_none(item).res)

C9_Witness ==
    /\ op = "is_none"
    /\ Present(item)
    /\ result = FALSE

\* C10: every derived operation makes exactly one call to fold, on its
\* first operand; xor learns the presence of other by the non-consuming
\* is_some of the standard library, before that fold, and never folds other.
C10_SingleFold ==
    op \in Derived =>
        /\ Count(events, "fold") = 1
        /\ AllArgs(events, "fold", item)
        /\ op = "xor" =>
              /\ Len(events) = 2
              /\ events[1] = Ev("is_some_ref", other)
              /\ events[2].e = "fold"
        /\ op # "xor" => Count(events, "is_some_ref") = 0

C10_Witness ==
    /\ op = "xor"
    /\ Present(item)
    /\ Present(other)
    /\ item # other
    /\ Count(events, "fold") = 1
    /\ Count(events, "is_some_ref") = 1
====
